---- MODULE Spec2Model ----
(***************************************************************************)
(* Model of the Marvel character backend (web marvel/backend/server.py):   *)
(* the MarvelAPIService with its two lru_cache-memoized upstream calls,    *)
(* the FastAPI handlers running on one asyncio event loop, and the         *)
(* favorites collection reached through Motor.                             *)
(*                                                                         *)
(* Four specifications share the state:                                    *)
(*   CharSpec    the server under clients of the character endpoints;      *)
(*   FavSpec     the server under clients of the favorites endpoints,      *)
(*               requests interleaving at every await;                     *)
(*   FavSeqSpec  the same, under a client that waits for each response     *)
(*               before it sends the next request;                         *)
(*   SvcSpec     direct calls of the MarvelAPIService methods over a       *)
(*               stubbed upstream (any limit, no handler validation).      *)
(*                                                                         *)
(* Left out: the auth triple (ts, apikey, hash) of every upstream request, *)
(* the fields of a Character beyond its catalog snapshot, and a favorite's *)
(* added_at timestamp.                                                     *)
(***************************************************************************)
EXTENDS Integers, Sequences, FiniteSets

\* ------------------------------------------------------------ constants

\* params['limit'] = min(limit, 100)
UpstreamMaxLimit == 100
\* limit: int = Query(20, ge=1, le=100)
QueryLimitMin == 1
QueryLimitMax == 100
\* offset: int = Query(0, ge=0)
QueryOffsetMin == 0
\* find(...).to_list(1000)
FavoritesListCap == 1000

\* ------------------------------------------------------------ bounds

\* Capacity of the listing memo (lru_cache(maxsize=100)), scaled down so that
\* the cache fills and evicts within the explored runs.
ListCacheSize == 2
\* Capacity of the by-id memo (lru_cache(maxsize=50)), scaled down likewise.
IdCacheSize == 1
\* Number of upstream HTTP requests explored.
MaxNetCalls == 3
\* Number of favorite records ever constructed (fresh uuid4 values).
MaxRecords == 3

\* ------------------------------------------------------------ input domains

None == "None"
Reqs == {"r1", "r2"}
Users == {"u1", "u2"}
CharIds == {1, 2}
Names == {"Spider-Man"}
Searches == {None, "spider"}
Limits == {0, 100, 150}
Offsets == {0, 20}
\* Query strings the HTTP clients send: a limit below, within and above the
\* accepted range.
QueryLimits == {0, 50, 200}
QueryOffsets == {0}
\* Snapshots of the upstream catalog: what the upstream answers may differ
\* from one request to the next.
Versions == {1, 2}
EnvelopeCodes == {200, 409}

\* What one requests.get(...) can produce.  fail: requests.get or
\* raise_for_status raised a RequestException (timeout, connection failure,
\* HTTP error status).  Otherwise the JSON envelope: its code and, under code
\* 200, the shape of data.results (empty, records that parse, a record that
\* lacks a required field) and the catalog snapshot it was read from.
TransportFailure == [fail |-> TRUE, code |-> 0, results |-> "none", ver |-> 0]
Envelope(code, results, ver) ==
    [fail |-> FALSE, code |-> code, results |-> results, ver |-> ver]
Responses ==
    {TransportFailure}
    \cup {Envelope(c, "none", 0) : c \in EnvelopeCodes \ {200}}
    \cup {Envelope(200, "malformed", 0)}
    \cup {Envelope(200, r, v) : r \in {"empty", "valid"}, v \in Versions}
NoResponse == [fail |-> FALSE, code |-> 0, results |-> "none", ver |-> 0]

VARIABLES
    store,      \* db.favorites: the set of stored FavoriteCharacter documents
    nextId,     \* number of FavoriteCharacter ids generated so far
    listCache,  \* lru_cache of get_characters: entries from LRU to MRU
    idCache,    \* lru_cache of get_character_by_id: entries from LRU to MRU
    netCalls,   \* number of requests.get calls issued
    last,       \* the latest completed service call: arguments, outcome,
                \* and the query parameters it sent upstream, if it sent any
    req         \* the request slots: each handler's locals and position

vars == <<store, nextId, listCache, idCache, netCalls, last, req>>

\* ------------------------------------------------------------ helpers

Min(a, b) == IF a < b THEN a ELSE b

Return(v) == [kind |-> "return", code |-> 0, val |-> v]
RaiseHTTP(c) == [kind |-> "HTTPException", code |-> c, val |-> 0]
RaiseOther == [kind |-> "Exception", code |-> 0, val |-> 0]
Raised(res) == res.kind # "return"

\* ------------------------------------------------------------ lru_cache

Keys(cache) == {cache[i].key : i \in 1..Len(cache)}
\* A lookup that never matches, as when the key differs on every call.
LruHitNever(cache, key) == FALSE
\* The wrapper's lookup of the call's key.
LruHit(cache, key) == key \in Keys(cache)
LruValue(cache, key) ==
    (CHOOSE e \in {cache[i] : i \in 1..Len(cache)} : e.key = key).val
Without(cache, key) == SelectSeq(cache, LAMBDA e : e.key # key)
\* A hit moves the entry to the most-recently-used end.
LruTouch(cache, key) ==
    Append(Without(cache, key), [key |-> key, val |-> LruValue(cache, key)])
\* A stored result goes to the MRU end; a full cache drops its LRU entry.
LruPut(cache, key, val, maxsize) ==
    LET kept == IF Len(cache) >= maxsize THEN Tail(cache) ELSE cache
    IN  Append(kept, [key |-> key, val |-> val])
\* A wrapper that stored the outcome of a failed call as well.
CacheAfterMissCachingFailures(cache, key, res, maxsize) ==
    LruPut(cache, key, res.val, maxsize)
\* The wrapper stores only what the wrapped function returns: an exception
\* propagates before the cache is touched.
CacheAfterMiss(cache, key, res, maxsize) ==
    IF Raised(res) THEN cache ELSE LruPut(cache, key, res.val, maxsize)

\* ------------------------------------------------------------ MarvelAPIService

\* A memo key built from the limit after clamping.
ListKeyClamped(search, limit, offset) ==
    <<search, Min(limit, UpstreamMaxLimit), offset>>
\* The memo key of get_characters: the arguments as the caller passed them
\* (the decorator sees them before the body runs).
ListKey(search, limit, offset) == <<search, limit, offset>>
\* The memo key of get_character_by_id.
IdKey(character_id) == <<character_id>>

\* A limit passed on as it came.
ClampLimitNone(limit) == limit
\* min(limit, 100): there is no lower clamp.
ClampLimit(limit) == Min(limit, UpstreamMaxLimit)

\* The query parameters built before the request (the auth triple aside).
ListParams(search, limit, offset) ==
    [limit |-> ClampLimit(limit), offset |-> offset,
     nameStartsWith |-> IF search # None THEN search ELSE None]
NoParams == [limit |-> 0, offset |-> 0, nameStartsWith |-> None]

\* get_characters, from the response on.
ListResult(resp) ==
    IF resp.fail THEN RaiseHTTP(503)
    ELSE IF resp.code = 200
         THEN IF resp.results = "malformed" THEN RaiseOther
              ELSE Return(resp.ver)
         ELSE RaiseHTTP(400)

\* get_character_by_id, from the response on.
ByIdResult(resp) ==
    IF resp.fail THEN RaiseHTTP(503)
    ELSE IF resp.code = 200 /\ resp.results # "empty"
         THEN IF resp.results = "malformed" THEN RaiseOther
              ELSE Return(resp.ver)
         ELSE RaiseHTTP(404)

\* A completed service call.  net: it issued an upstream request; params:
\* the query parameters of that request.
NoCall == [op |-> "none", search |-> None, limit |-> 0, offset |-> 0,
           cid |-> 0, res |-> Return(0), net |-> FALSE, params |-> NoParams]
ListCall(search, limit, offset, res, net) ==
    [op |-> "list", search |-> search, limit |-> limit, offset |-> offset,
     cid |-> 0, res |-> res, net |-> net,
     params |-> IF net THEN ListParams(search, limit, offset) ELSE NoParams]
ByIdCall(cid, res, net) ==
    [op |-> "get", search |-> None, limit |-> 0, offset |-> 0,
     cid |-> cid, res |-> res, net |-> net, params |-> NoParams]

RecordCall(call) == last' = call

\* get_characters served from the memo: the wrapped function does not run.
ListServe(search, limit, offset) ==
    LET key == ListKey(search, limit, offset)
    IN  /\ listCache' = LruTouch(listCache, key)
        /\ RecordCall(ListCall(search, limit, offset,
                               Return(LruValue(listCache, key)), FALSE))
        /\ UNCHANGED netCalls
\* get_characters up to requests.get.
ListRequest(search, limit, offset) == netCalls' = netCalls + 1
\* get_characters from the response on, and the wrapper's store.
ListComplete(search, limit, offset, resp) ==
    LET res == ListResult(resp)
    IN  /\ listCache' = CacheAfterMiss(listCache, ListKey(search, limit, offset),
                                       res, ListCacheSize)
        /\ RecordCall(ListCall(search, limit, offset, res, TRUE))

ByIdServe(cid) ==
    /\ idCache' = LruTouch(idCache, IdKey(cid))
    /\ RecordCall(ByIdCall(cid, Return(LruValue(idCache, IdKey(cid))), FALSE))
    /\ UNCHANGED netCalls
ByIdRequest(cid) == netCalls' = netCalls + 1
ByIdComplete(cid, resp) ==
    LET res == ByIdResult(resp)
    IN  /\ idCache' = CacheAfterMiss(idCache, IdKey(cid), res, IdCacheSize)
        /\ RecordCall(ByIdCall(cid, res, TRUE))

\* ------------------------------------------------------------ direct service calls

\* marvel_service.get_characters(name_starts_with=, limit=, offset=): the
\* call is synchronous, so the caller sees it as one step.
CallGetCharacters(search, limit, offset) ==
    /\ IF LruHit(listCache, ListKey(search, limit, offset))
       THEN ListServe(search, limit, offset)
       ELSE /\ netCalls < MaxNetCalls
            /\ ListRequest(search, limit, offset)
            /\ \E resp \in Responses : ListComplete(search, limit, offset, resp)
    /\ UNCHANGED <<store, nextId, idCache, req>>

\* marvel_service.get_character_by_id(character_id)
CallGetCharacterById(cid) ==
    /\ IF LruHit(idCache, IdKey(cid))
       THEN ByIdServe(cid)
       ELSE /\ netCalls < MaxNetCalls
            /\ ByIdRequest(cid)
            /\ \E resp \in Responses : ByIdComplete(cid, resp)
    /\ UNCHANGED <<store, nextId, listCache, req>>

\* ------------------------------------------------------------ favorites collection

Favorite(id, user, cid, name) ==
    [id |-> id, user_id |-> user, character_id |-> cid, character_name |-> name]
Matching(user, cid) ==
    {f \in store : f.user_id = user /\ f.character_id = cid}
\* An existence check that finds nothing.
FindOneBlind(user, cid) == {}
\* find_one({'user_id': .., 'character_id': ..}): the documents it may
\* return; empty when it returns None.
FindOne(user, cid) == Matching(user, cid)
\* An insert that leaves the store alone when the pair has a record.
InsertOneUnique(doc) ==
    IF Matching(doc.user_id, doc.character_id) # {} THEN store
    ELSE store \cup {doc}
\* insert_one(doc): the collection has no unique index.
InsertOne(doc) == store \cup {doc}
\* A delete that removes every matching document.
DeleteOneAsMany(user, cid) == {store \ Matching(user, cid)}
\* delete_one(filter): the collections the store may hold afterwards; which
\* of several matching documents goes is the store's choice.
DeleteOne(user, cid) ==
    IF Matching(user, cid) = {} THEN {store}
    ELSE {store \ {f} : f \in Matching(user, cid)}
\* find({'user_id': ..}).to_list(1000)
FindByUser(user) ==
    LET all == {f \in store : f.user_id = user}
    IN  {S \in SUBSET all : Cardinality(S) = Min(Cardinality(all), FavoritesListCap)}

\* ------------------------------------------------------------ request handlers

IdleReq ==
    [kind |-> "none", pc |-> "idle", user |-> "", cid |-> 0, name |-> "",
     search |-> None, limit |-> 0, offset |-> 0, obj |-> 0,
     resp |-> NoResponse, status |-> 0, body |-> {}]

\* Every handler is an `async def` run on the single event loop.  Motor calls
\* are awaited and yield the loop; requests.get is a synchronous call and
\* holds the loop until it returns.
LoopFree == \A q \in Reqs : req[q].pc # "in_upstream"
Idle(r) == req[r].pc = "idle" /\ LoopFree
Finish(r, status, body) ==
    req' = [req EXCEPT ![r].pc = "done", ![r].status = status, ![r].body = body]

\* GET /
Root(r) ==
    /\ Idle(r)
    /\ req' = [req EXCEPT ![r] = [IdleReq EXCEPT !.kind = "root", !.pc = "done",
                                                 !.status = 200]]
    /\ UNCHANGED <<store, nextId, listCache, idCache, netCalls, last>>

\* The Query(...) constraints FastAPI enforces before the handler body runs.
ValidQuery(limit, offset) ==
    /\ QueryLimitMin <= limit /\ limit <= QueryLimitMax
    /\ QueryOffsetMin <= offset

\* get_characters: lines 195-196 turn every exception, HTTPException
\* included, into a 500.
ListStatus(res) == IF Raised(res) THEN 500 ELSE 200
\* get_character: an HTTPException keeps its status, anything else is a 500.
ByIdStatus(res) ==
    IF res.kind = "return" THEN 200
    ELSE IF res.kind = "HTTPException" THEN res.code ELSE 500

\* GET /characters?search&limit&offset
GetCharacters(r, search, limit, offset) ==
    LET new == [IdleReq EXCEPT !.kind = "list", !.search = search,
                               !.limit = limit, !.offset = offset]
    IN  /\ Idle(r)
        /\ IF ~ValidQuery(limit, offset)
           THEN /\ req' = [req EXCEPT ![r] = [new EXCEPT !.pc = "done", !.status = 422]]
                /\ UNCHANGED <<listCache, netCalls, last>>
           ELSE IF LruHit(listCache, ListKey(search, limit, offset))
           THEN /\ ListServe(search, limit, offset)
                /\ req' = [req EXCEPT ![r] = [new EXCEPT !.pc = "done", !.status = 200]]
           ELSE /\ netCalls < MaxNetCalls
                /\ ListRequest(search, limit, offset)
                /\ req' = [req EXCEPT ![r] = [new EXCEPT !.pc = "in_upstream"]]
                /\ UNCHANGED <<listCache, last>>
        /\ UNCHANGED <<store, nextId, idCache>>

\* GET /characters/{character_id}
GetCharacter(r, cid) ==
    LET new == [IdleReq EXCEPT !.kind = "get", !.cid = cid]
    IN  /\ Idle(r)
        /\ IF LruHit(idCache, IdKey(cid))
           THEN /\ ByIdServe(cid)
                /\ req' = [req EXCEPT ![r] = [new EXCEPT !.pc = "done", !.status = 200]]
           ELSE /\ netCalls < MaxNetCalls
                /\ ByIdRequest(cid)
                /\ req' = [req EXCEPT ![r] = [new EXCEPT !.pc = "in_upstream"]]
                /\ UNCHANGED <<idCache, last>>
        /\ UNCHANGED <<store, nextId, listCache>>

\* requests.get returns (or raises) in the handler that was waiting on it.
UpstreamReturn(r, resp) ==
    /\ req[r].pc = "in_upstream"
    /\ IF req[r].kind = "list"
       THEN /\ ListComplete(req[r].search, req[r].limit, req[r].offset, resp)
            /\ req' = [req EXCEPT ![r].pc = "done", ![r].resp = [resp EXCEPT !.ver = 0],
                                  ![r].status = ListStatus(ListResult(resp))]
            /\ UNCHANGED idCache
       ELSE /\ ByIdComplete(req[r].cid, resp)
            /\ req' = [req EXCEPT ![r].pc = "done", ![r].resp = [resp EXCEPT !.ver = 0],
                                  ![r].status = ByIdStatus(ByIdResult(resp))]
            /\ UNCHANGED listCache
    /\ UNCHANGED <<store, nextId, netCalls>>

\* POST /favorites, up to `await db.favorites.find_one(...)`.
AddFavorite(r, user, cid, name) ==
    /\ Idle(r)
    /\ req' = [req EXCEPT ![r] = [IdleReq EXCEPT !.kind = "add", !.pc = "await_find",
                                  !.user = user, !.cid = cid, !.name = name]]
    /\ UNCHANGED <<store, nextId, listCache, idCache, netCalls, last>>

\* find_one answers; `ok` is false when the driver raises instead.
FindOneReturn(r, ok) ==
    /\ req[r].pc = "await_find" /\ LoopFree
    /\ IF ~ok
       THEN Finish(r, 500, {}) /\ UNCHANGED nextId
       ELSE IF FindOne(req[r].user, req[r].cid) # {}
       THEN Finish(r, 400, {}) /\ UNCHANGED nextId
       ELSE /\ nextId < MaxRecords
            /\ nextId' = nextId + 1
            /\ req' = [req EXCEPT ![r].pc = "await_insert", ![r].obj = nextId + 1]
    /\ UNCHANGED <<store, listCache, idCache, netCalls, last>>

\* insert_one answers.
InsertOneReturn(r, ok) ==
    LET doc == Favorite(req[r].obj, req[r].user, req[r].cid, req[r].name)
    IN  /\ req[r].pc = "await_insert" /\ LoopFree
        /\ IF ok
           THEN store' = InsertOne(doc) /\ Finish(r, 200, {doc})
           ELSE UNCHANGED store /\ Finish(r, 500, {})
        /\ UNCHANGED <<nextId, listCache, idCache, netCalls, last>>

\* GET /favorites/{user_id}, up to the await.
GetFavorites(r, user) ==
    /\ Idle(r)
    /\ req' = [req EXCEPT ![r] = [IdleReq EXCEPT !.kind = "favs", !.pc = "await_list",
                                  !.user = user]]
    /\ UNCHANGED <<store, nextId, listCache, idCache, netCalls, last>>

FindReturn(r, ok) ==
    /\ req[r].pc = "await_list" /\ LoopFree
    /\ IF ok
       THEN \E docs \in FindByUser(req[r].user) : Finish(r, 200, docs)
       ELSE Finish(r, 500, {})
    /\ UNCHANGED <<store, nextId, listCache, idCache, netCalls, last>>

\* DELETE /favorites/{user_id}/{character_id}, up to the await.
RemoveFavorite(r, user, cid) ==
    /\ Idle(r)
    /\ req' = [req EXCEPT ![r] = [IdleReq EXCEPT !.kind = "remove", !.pc = "await_delete",
                                  !.user = user, !.cid = cid]]
    /\ UNCHANGED <<store, nextId, listCache, idCache, netCalls, last>>

\* delete_one answers; deleted_count is the number of documents that went.
DeleteOneReturn(r, ok) ==
    /\ req[r].pc = "await_delete" /\ LoopFree
    /\ IF ok
       THEN \E after \in DeleteOne(req[r].user, req[r].cid) :
               /\ store' = after
               /\ Finish(r, IF Cardinality(store) - Cardinality(after) = 0
                            THEN 404 ELSE 200, {})
       ELSE UNCHANGED store /\ Finish(r, 500, {})
    /\ UNCHANGED <<nextId, listCache, idCache, netCalls, last>>

\* The response leaves; the slot is free for the client's next request.
Respond(r) ==
    /\ req[r].pc = "done" /\ LoopFree
    /\ req' = [req EXCEPT ![r] = IdleReq]
    /\ UNCHANGED <<store, nextId, listCache, idCache, netCalls, last>>

\* ------------------------------------------------------------ specifications

Init ==
    /\ store = {}
    /\ nextId = 0
    /\ listCache = <<>>
    /\ idCache = <<>>
    /\ netCalls = 0
    /\ last = NoCall
    /\ req = [r \in Reqs |-> IdleReq]

\* The requests a client can send, by endpoint family.
ArriveCharacters(r) ==
    \/ Root(r)
    \/ \E s \in Searches, l \in QueryLimits, o \in QueryOffsets :
          GetCharacters(r, s, l, o)
    \/ \E c \in CharIds : GetCharacter(r, c)

ArriveFavorites(r) ==
    \/ \E u \in Users, c \in CharIds, n \in Names : AddFavorite(r, u, c, n)
    \/ \E u \in Users : GetFavorites(r, u)
    \/ \E u \in Users, c \in CharIds : RemoveFavorite(r, u, c)

ResumeCharacters(r) ==
    \/ \E resp \in Responses : UpstreamReturn(r, resp)
    \/ Respond(r)

ResumeFavorites(r) ==
    \/ \E ok \in BOOLEAN : FindOneReturn(r, ok)
    \/ \E ok \in BOOLEAN : InsertOneReturn(r, ok)
    \/ \E ok \in BOOLEAN : FindReturn(r, ok)
    \/ \E ok \in BOOLEAN : DeleteOneReturn(r, ok)
    \/ Respond(r)

\* Everything one request slot can do next.
Step(r) ==
    ArriveCharacters(r) \/ ArriveFavorites(r) \/ ResumeCharacters(r) \/ ResumeFavorites(r)

\* The server under clients of the character endpoints.
CharNext == \E r \in Reqs : ArriveCharacters(r) \/ ResumeCharacters(r)

CharSpec == Init /\ [][CharNext]_vars

\* The server under clients of the favorites endpoints, requests overlapping
\* freely.
FavNext == \E r \in Reqs : ArriveFavorites(r) \/ ResumeFavorites(r)

FavSpec == Init /\ [][FavNext]_vars

\* The same, under a client that waits for each response before it sends the
\* next request.
Quiet(r) == \A q \in Reqs \ {r} : req[q].pc \in {"idle", "done"}

FavSeqNext == \E r \in Reqs : (Quiet(r) /\ ArriveFavorites(r)) \/ ResumeFavorites(r)

FavSeqSpec == Init /\ [][FavSeqNext]_vars

\* Direct calls of the service methods.
SvcNext ==
    \/ \E s \in Searches, l \in Limits, o \in Offsets : CallGetCharacters(s, l, o)
    \/ \E c \in CharIds : CallGetCharacterById(c)

SvcSpec == Init /\ [][SvcNext]_vars

\* ------------------------------------------------------------ properties

SameArgs(a, b) ==
    /\ a.op = b.op /\ a.search = b.search /\ a.limit = b.limit
    /\ a.offset = b.offset /\ a.cid = b.cid

\* C1: under a client that sends one favorites request at a time, no pair
\* (user_id, character_id) ever has more than one stored record, and an
\* add-favorite whose find_one answers while the pair has a record ends with
\* HTTP 400 and leaves the store as it was.
C1_DuplicateAddRejected ==
    /\ [](\A u \in Users, c \in CharIds : Cardinality(Matching(u, c)) <= 1)
    /\ [][\A r \in Reqs :
            (/\ req[r].pc = "await_find" /\ req'[r].pc # "await_find"
             /\ Matching(req[r].user, req[r].cid) # {})
            => /\ store' = store
               /\ req'[r].pc = "done"
               /\ req'[r].status # 500 => req'[r].status = 400]_vars

\* C1 witness: a duplicate add has been answered 400 and its pair still has
\* exactly one record.
C1_Witness ==
    \E r \in Reqs :
        /\ req[r].kind = "add" /\ req[r].pc = "done" /\ req[r].status = 400
        /\ Cardinality(Matching(req[r].user, req[r].cid)) = 1

\* C2: when delete_one answers a remove-favorite, a store with no record of
\* the pair gives HTTP 404 and stays as it was; otherwise the answer is HTTP
\* 200 and the store loses exactly one record of the pair and nothing else.
C2_RemoveExactlyOne ==
    [][\A r \in Reqs :
          (/\ req[r].pc = "await_delete" /\ req'[r].pc = "done"
           /\ req'[r].status # 500)
          => LET m == Matching(req[r].user, req[r].cid)
             IN  IF m = {}
                 THEN req'[r].status = 404 /\ store' = store
                 ELSE /\ req'[r].status = 200
                      /\ \E f \in m : store' = store \ {f}]_vars

\* C2 witness: a remove was answered 200 and a further record of the same
\* pair is still stored.
C2_Witness ==
    \E r \in Reqs :
        /\ req[r].kind = "remove" /\ req[r].pc = "done" /\ req[r].status = 200
        /\ Matching(req[r].user, req[r].cid) # {}

\* C3: GET /characters/{id} answers 404 when the upstream returned an empty
\* result set, 503 when the upstream call failed at transport level, and 500
\* for every other failure (a non-success envelope code, a record that does
\* not parse).
C3_LookupStatusMapping ==
    \A r \in Reqs :
        (req[r].kind = "get" /\ req[r].pc = "done" /\ req[r].resp # NoResponse)
        => LET p == req[r].resp
           IN  /\ p.fail => req[r].status = 503
               /\ (~p.fail /\ p.code = 200 /\ p.results = "empty")
                  => req[r].status = 404
               /\ (~p.fail /\ (p.code # 200 \/ p.results = "malformed"))
                  => req[r].status = 500

\* C4: the limit get_characters sends upstream lies in [1, 100]: 100 for a
\* limit above 100, 1 for a limit below 1, the caller's value otherwise.
C4_LimitClampedBothEnds ==
    (last.op = "list" /\ last.net)
    => last.params.limit =
          (IF last.limit > 100 THEN 100 ELSE IF last.limit < 1 THEN 1 ELSE last.limit)

\* C4 as the code has it: the limit sent upstream is 100 for a limit above
\* 100 and the caller's value otherwise, values below 1 included.
C4_LimitClampedAbove ==
    (last.op = "list" /\ last.net)
    => last.params.limit = (IF last.limit > 100 THEN 100 ELSE last.limit)

\* C4 witness: a limit below 1 went upstream unchanged.
C4_Witness ==
    last.op = "list" /\ last.net /\ last.limit < 1 /\ last.params.limit = last.limit

\* C5: a GET /characters whose limit is above 100 is not rejected: it is
\* answered HTTP 200.
C5_OverLimitAccepted ==
    \A r \in Reqs :
        (req[r].kind = "list" /\ req[r].pc = "done" /\ req[r].limit > 100)
        => req[r].status = 200

\* C6: a memoized call that repeats the call before it (same operation, same
\* arguments) causes no upstream request and returns what that call returned.
C6_RepeatServedFromMemo ==
    [][(last.op # "none" /\ SameArgs(last', last))
       => (netCalls' = netCalls /\ last'.res = last.res)]_vars

\* C6 as the code has it: the same, when the call before it returned a result.
C6_RepeatOfSuccessServedFromMemo ==
    [][(last.op # "none" /\ SameArgs(last', last) /\ ~Raised(last.res))
       => (netCalls' = netCalls /\ ~last'.net /\ last'.res = last.res)]_vars

\* C6 witness: one upstream request so far, and the latest call was served
\* from the memo: every call since that request repeated it.
C6_Witness ==
    netCalls = 1 /\ last.op # "none" /\ ~last.net /\ ~Raised(last.res)

\* C7: while one request waits on its upstream call or on a storage call,
\* every other request slot can still take a step.
C7_NoRequestBlocksOthers ==
    \A r1, r2 \in Reqs :
        (r1 # r2 /\ req[r1].pc \notin {"idle", "done"}) => ENABLED Step(r2)

\* C8: insert_one does not look at the pair again: a request that passed the
\* existence check stores its record and is answered 200 whatever the store
\* holds by then.
C8_InsertAfterCheckAlwaysWrites ==
    [][\A r \in Reqs :
          (/\ req[r].pc = "await_insert" /\ req'[r].pc = "done"
           /\ req'[r].status # 500)
          => LET doc == Favorite(req[r].obj, req[r].user, req[r].cid, req[r].name)
             IN  /\ req'[r].status = 200
                 /\ doc \notin store
                 /\ store' = store \cup {doc}]_vars

\* C8 witness: two add requests for one pair were both answered 200 and the
\* store holds two records of that pair.
C8_Witness ==
    \E r1, r2 \in Reqs :
        /\ r1 # r2
        /\ req[r1].kind = "add" /\ req[r1].pc = "done" /\ req[r1].status = 200
        /\ req[r2].kind = "add" /\ req[r2].pc = "done" /\ req[r2].status = 200
        /\ req[r1].user = req[r2].user /\ req[r1].cid = req[r2].cid
        /\ Cardinality(Matching(req[r1].user, req[r1].cid)) = 2

\* C9: a listing call that follows a successful one with the same search and
\* offset and a limit equal after clamping causes no upstream request.
C9_SharedEntryAfterClamping ==
    [][(/\ last.op = "list" /\ last'.op = "list" /\ ~Raised(last.res)
        /\ last'.search = last.search /\ last'.offset = last.offset
        /\ Min(last'.limit, UpstreamMaxLimit) = Min(last.limit, UpstreamMaxLimit))
       => netCalls' = netCalls]_vars

\* C9 as the code has it: the memo is keyed by the arguments as passed.  A
\* listing call whose own (search, limit, offset) has no entry causes an
\* upstream request, and a listing call that returned leaves its result
\* under its own (search, limit, offset) as the most recent entry.
C9_KeyedByArgumentsAsPassed ==
    [][last'.op = "list"
       => /\ <<last'.search, last'.limit, last'.offset>> \notin Keys(listCache)
             => (netCalls' = netCalls + 1 /\ last'.net)
          /\ ~Raised(last'.res)
             => /\ Len(listCache') > 0
                /\ listCache'[Len(listCache')].key =
                      <<last'.search, last'.limit, last'.offset>>]_vars

\* C9 witness: the call with limit 100 went upstream although the entry of
\* limit 150, same search and offset, was cached; both entries now exist.
C9_Witness ==
    /\ last.op = "list" /\ last.limit = 100 /\ last.net
    /\ {<<last.search, 150, last.offset>>, <<last.search, 100, last.offset>>}
          \subseteq Keys(listCache)

\* C10: a memoized call that fails leaves both memo caches as they were, and
\* a call that repeats a failed call issues a new upstream request.
C10_FailureNotCached ==
    [][/\ Raised(last'.res)
          => (listCache' = listCache /\ idCache' = idCache)
       /\ (last.op # "none" /\ SameArgs(last', last) /\ Raised(last.res))
          => (last'.net /\ netCalls' = netCalls + 1)]_vars

\* C10 witness: a listing call failed while the listing memo was full, and
\* the memo still holds all its entries.
C10_Witness ==
    /\ last.op = "list" /\ Raised(last.res) /\ netCalls = ListCacheSize + 1
    /\ Len(listCache) = ListCacheSize

====
